---- MODULE Spec2Model ----
(***************************************************************************)
(* Order controller of the McDonald's order management system:             *)
(* OrderQueue (services/orderQueue.js), Order (models/order.js),           *)
(* Bot (models/bot.js) and OrderController (orderController.js).           *)
(*                                                                         *)
(* Objects are held by reference in the program; here an order is named by *)
(* its orderNumber and a bot by its botId, and the maps `order` and `bot`  *)
(* hold the fields of every object constructed so far.  Every handler runs *)
(* to completion on the single JavaScript thread, so each public method    *)
(* and each timer callback is one action.                                  *)
(***************************************************************************)
EXTENDS Integers, Sequences, FiniteSets, TLC

\* ------------------------------------------------------------------ bounds
MaxOrders == 3   \* number of createNormalOrder / createVIPOrder calls explored
MaxBots == 3     \* number of addBot calls explored

\* --------------------------------------------------------------- constants
ORDER_TYPES == [NORMAL |-> "NORMAL", VIP |-> "VIP"]
ORDER_STATUS == [PENDING |-> "PENDING", PROCESSING |-> "PROCESSING", COMPLETE |-> "COMPLETE"]
BOT_STATUS == [IDLE |-> "IDLE", PROCESSING |-> "PROCESSING"]
STARTING_ORDER_NUMBER == 1001
STARTING_BOT_ID == 1
Null == 0        \* JavaScript null (order numbers and bot ids are positive)
BusyError == "Bot is already processing an order"
NoError == "none"                \* the handler ended without throwing
LoggerError == "logger failed"   \* whatever the injected logger throws

VARIABLES
  orders,           \* OrderController.orders: every order created, in creation order
  order,            \* the Order objects: orderNumber -> [orderNumber, type, status]
  orderQueue,       \* the OrderQueue object: [orders, vipOrderCount]
  completedOrders,  \* OrderController.completedOrders
  bots,             \* OrderController.bots: the pool, in insertion order
  bot,              \* the Bot objects ever constructed: botId -> [botId, status, currentOrder, processingTimeout]
  nextOrderNumber,  \* OrderController.nextOrderNumber
  nextBotId,        \* OrderController.nextBotId
  timers,           \* the runtime's pending setTimeout callbacks, oldest first
  log,              \* the logger calls made by the last handler, in order
  thrown,           \* the error the last handler ended with, or NoError
  lastOp,           \* history: the last handler, its argument and its result
  binds,            \* history: the bindings made by the last handler, each with the queue left behind
  enqLog,           \* history: the order passed to each enqueue call so far, in call order
  made,             \* history: the id of each Bot constructed so far, in construction order
  stream,           \* history, kept by SpecStream only: orderNumber -> the logger calls that named the order so far, as [kind, bot]
  bindLog           \* history, kept by SpecStream only: the order of each binding made so far, in binding order

vars == <<orders, order, orderQueue, completedOrders, bots, bot, nextOrderNumber,
          nextBotId, timers, log, thrown, lastOp, binds, enqLog, made, stream,
          bindLog>>

\* The whole state as one record, so that a handler is a function of states.
\* failAt is an input of the handler, not state: the number of the logger call
\* (counted within the handler) at which the injected logger throws, 0 for a
\* logger that does not throw.  record tells whether the logger calls are
\* also kept in the history `stream`, recordBinds whether the bindings are
\* also kept in the history `bindLog`.
State == [failAt |-> 0, record |-> FALSE, recordBinds |-> FALSE,
          orders |-> orders, order |-> order, orderQueue |-> orderQueue,
          completedOrders |-> completedOrders, bots |-> bots, bot |-> bot,
          nextOrderNumber |-> nextOrderNumber, nextBotId |-> nextBotId,
          timers |-> timers, log |-> log, thrown |-> thrown, lastOp |-> lastOp,
          binds |-> binds, enqLog |-> enqLog, made |-> made, stream |-> stream,
          bindLog |-> bindLog]

\* ------------------------------------------------------------ sequences
Min(a, b) == IF a < b THEN a ELSE b
Max(a, b) == IF a > b THEN a ELSE b

\* Array.prototype.splice(index, 0, e): index is clamped to [0, length].
splice(s, index, e) ==
  LET i == Max(0, Min(index, Len(s)))
  IN SubSeq(s, 1, i) \o <<e>> \o SubSeq(s, i + 1, Len(s))

\* the timer is left pending
clearTimeout_leavesTimer(ts, handle) == ts

\* clearTimeout(handle): the callback registered under the handle never runs.
clearTimeout(ts, handle) == SelectSeq(ts, LAMBDA h : h # handle)

\* ---------------------------------------------------------------- Order
Order(orderNumber, type) ==
  [orderNumber |-> orderNumber, type |-> type, status |-> ORDER_STATUS.PENDING]

Order_startProcessing(o) == [o EXCEPT !.status = ORDER_STATUS.PROCESSING]

complete(o) == [o EXCEPT !.status = ORDER_STATUS.COMPLETE]

\* the order taken back from the bot is marked COMPLETE
returnToPending_marksComplete(o) == [o EXCEPT !.status = ORDER_STATUS.COMPLETE]

\* the status is left as it was
returnToPending_keepsStatus(o) == o

returnToPending(o) == [o EXCEPT !.status = ORDER_STATUS.PENDING]

isVIP(o) == o.type = ORDER_TYPES.VIP

\* ----------------------------------------------------------- OrderQueue
OrderQueue == [orders |-> <<>>, vipOrderCount |-> 0]

\* a NORMAL order is put right behind the VIP orders instead of at the end
enqueue_normalBehindVips(Q, o) ==
  IF isVIP(o)
  THEN [orders |-> splice(Q.orders, Q.vipOrderCount, o.orderNumber),
        vipOrderCount |-> Q.vipOrderCount + 1]
  ELSE [Q EXCEPT !.orders = splice(@, Q.vipOrderCount, o.orderNumber)]

\* a VIP order is put at the very front instead of behind the queued VIP orders
enqueue_vipAtFront(Q, o) ==
  IF isVIP(o)
  THEN [orders |-> splice(Q.orders, 0, o.orderNumber),
        vipOrderCount |-> Q.vipOrderCount + 1]
  ELSE [Q EXCEPT !.orders = Append(@, o.orderNumber)]

enqueue(Q, o) ==
  IF isVIP(o)
  THEN [orders |-> splice(Q.orders, Q.vipOrderCount, o.orderNumber),
        vipOrderCount |-> Q.vipOrderCount + 1]
  ELSE [Q EXCEPT !.orders = Append(@, o.orderNumber)]

\* the cached VIP count is decremented before the queue is looked at
dequeue_decrementsFirst(Q, heap) ==
  IF Len(Q.orders) = 0
  THEN [ret |-> Null, Q |-> [Q EXCEPT !.vipOrderCount = @ - 1]]
  ELSE LET o == Head(Q.orders)
       IN [ret |-> o,
           Q |-> [orders |-> Tail(Q.orders),
                  vipOrderCount |-> Q.vipOrderCount - 1]]

\* pop() instead of shift(): the order at the back is taken
dequeue_fromBack(Q, heap) ==
  IF Len(Q.orders) = 0
  THEN [ret |-> Null, Q |-> Q]
  ELSE LET o == Q.orders[Len(Q.orders)]
       IN [ret |-> o,
           Q |-> [orders |-> SubSeq(Q.orders, 1, Len(Q.orders) - 1),
                  vipOrderCount |-> IF isVIP(heap[o]) THEN Q.vipOrderCount - 1
                                    ELSE Q.vipOrderCount]]

\* the front order is returned but left in the queue
dequeue_keepsFront(Q, heap) ==
  IF Len(Q.orders) = 0
  THEN [ret |-> Null, Q |-> Q]
  ELSE [ret |-> Head(Q.orders), Q |-> Q]

\* dequeue returns the order (or Null) and leaves the queue Q; heap maps the
\* queued references to their objects.
dequeue(Q, heap) ==
  IF Len(Q.orders) = 0
  THEN [ret |-> Null, Q |-> Q]
  ELSE LET o == Head(Q.orders)
       IN [ret |-> o,
           Q |-> [orders |-> Tail(Q.orders),
                  vipOrderCount |-> IF isVIP(heap[o]) THEN Q.vipOrderCount - 1
                                    ELSE Q.vipOrderCount]]

\* the orders are dropped but the cached VIP count is left as it was
clear_keepsCount(Q) == [Q EXCEPT !.orders = <<>>]

clear(Q) == [orders |-> <<>>, vipOrderCount |-> 0]

\* the cached VIP count is returned as the size
size_vipCountOnly(Q) == Q.vipOrderCount

size(Q) == Len(Q.orders)

isEmpty(Q) == Len(Q.orders) = 0

getAll(Q) == Q.orders

\* ------------------------------------------------------------------ Bot
Bot(botId) ==
  [botId |-> botId, status |-> BOT_STATUS.IDLE, currentOrder |-> Null,
   processingTimeout |-> Null]

isIdle(b) == b.status = BOT_STATUS.IDLE

\* The logger is the injected function; here it records the event, or throws.
\* No caller catches what it throws, so the handler ends there.
logger(S, e) ==
  IF S.failAt = Len(S.log) + 1
  THEN [S EXCEPT !.thrown = LoggerError]
  ELSE [S EXCEPT !.log = Append(@, e),
                 !.stream = IF e.order = Null \/ ~S.record THEN @
                            ELSE [n \in DOMAIN @ \cup {e.order} |->
                                    IF n # e.order THEN @[n]
                                    ELSE (IF n \in DOMAIN @ THEN @[n] ELSE <<>>)
                                           \o <<[kind |-> e.kind, bot |-> e.bot]>>]]

\* the timer of a VIP order is shorter: it runs before the timers pending
Bot_startProcessing_shortVipTimer(S, b, o) ==
  IF S.bot[b].status # BOT_STATUS.IDLE
  THEN [S EXCEPT !.thrown = BusyError]
  ELSE [S EXCEPT !.bot[b].currentOrder = o,
                 !.bot[b].status = BOT_STATUS.PROCESSING,
                 !.order[o] = Order_startProcessing(@),
                 !.bot[b].processingTimeout = b,
                 !.timers = IF isVIP(S.order[o]) THEN <<b>> \o @ ELSE Append(@, b)]

\* no check that the bot is idle: the new order replaces the current one
Bot_startProcessing_noGuard(S, b, o) ==
  [S EXCEPT !.bot[b].currentOrder = o,
            !.bot[b].status = BOT_STATUS.PROCESSING,
            !.order[o] = Order_startProcessing(@),
            !.bot[b].processingTimeout = b,
            !.timers = Append(@, b)]

\* Bot.startProcessing(order, onComplete): throws when the bot is not idle;
\* otherwise takes the order and registers the timer, whose handle is the
\* bot's id (a bot registers one timer per binding).
Bot_startProcessing(S, b, o) ==
  IF S.bot[b].status # BOT_STATUS.IDLE
  THEN [S EXCEPT !.thrown = BusyError]
  ELSE [S EXCEPT !.bot[b].currentOrder = o,
                 !.bot[b].status = BOT_STATUS.PROCESSING,
                 !.order[o] = Order_startProcessing(@),
                 !.bot[b].processingTimeout = b,
                 !.timers = Append(@, b)]

\* stopping a bot that holds no order is treated as an error
stopProcessing_throwsWhenIdle(S, b) ==
  LET S1 == IF S.bot[b].processingTimeout # Null
            THEN [S EXCEPT !.timers = clearTimeout(@, S.bot[b].processingTimeout),
                           !.bot[b].processingTimeout = Null]
            ELSE S
      o == S1.bot[b].currentOrder
  IN IF o # Null
     THEN [ret |-> o,
           S |-> [S1 EXCEPT !.order[o] = returnToPending(@),
                            !.bot[b].currentOrder = Null,
                            !.bot[b].status = BOT_STATUS.IDLE]]
     ELSE [ret |-> Null, S |-> [S1 EXCEPT !.thrown = "Bot is not processing an order"]]

\* the order goes back to PENDING but the bot keeps it and stays PROCESSING
stopProcessing_keepsOrder(S, b) ==
  LET S1 == IF S.bot[b].processingTimeout # Null
            THEN [S EXCEPT !.timers = clearTimeout(@, S.bot[b].processingTimeout),
                           !.bot[b].processingTimeout = Null]
            ELSE S
      o == S1.bot[b].currentOrder
  IN IF o # Null
     THEN [ret |-> o, S |-> [S1 EXCEPT !.order[o] = returnToPending(@)]]
     ELSE [ret |-> Null, S |-> S1]

\* Bot.stopProcessing(): returns the order taken back (or Null) and the state.
stopProcessing(S, b) ==
  LET S1 == IF S.bot[b].processingTimeout # Null
            THEN [S EXCEPT !.timers = clearTimeout(@, S.bot[b].processingTimeout),
                           !.bot[b].processingTimeout = Null]
            ELSE S
      o == S1.bot[b].currentOrder
  IN IF o # Null
     THEN [ret |-> o,
           S |-> [S1 EXCEPT !.order[o] = returnToPending(@),
                            !.bot[b].currentOrder = Null,
                            !.bot[b].status = BOT_STATUS.IDLE]]
     ELSE [ret |-> Null, S |-> S1]

\* ------------------------------------------------------ OrderController
\* what a call hands back to its caller: its value, or nothing when it throws
Returned(S, v) == IF S.thrown # NoError THEN Null ELSE v

\* history: record that order o has just been passed to enqueue
Stamp(S, o) == [S EXCEPT !.enqLog = Append(@, o)]

RECURSIVE assignLoop(_, _)
\* the for-loop of _assignOrdersToIdleBots over the idle bots found on entry
assignLoop(S, idleBots) ==
  IF idleBots = <<>> \/ isEmpty(S.orderQueue)
  THEN S
  ELSE LET b == Head(idleBots)
           d == dequeue(S.orderQueue, S.order)
           S1 == [S EXCEPT !.orderQueue = d.Q]
           S2 == Bot_startProcessing(S1, b, d.ret)
           S3 == [S2 EXCEPT !.binds = Append(@, [bot |-> b, order |-> d.ret,
                                                 left |-> getAll(d.Q)]),
                            !.bindLog = IF S.recordBinds THEN Append(@, d.ret) ELSE @]
           S4 == logger(S3, [kind |-> "pickedUp", bot |-> b, order |-> d.ret,
                             type |-> S2.order[d.ret].type,
                             status |-> S2.order[d.ret].status])
       IN IF S2.thrown # NoError THEN S2
          ELSE IF S4.thrown # NoError THEN S4
          ELSE assignLoop(S4, Tail(idleBots))

\* no filter on isIdle(): the pass walks the whole pool
_assignOrdersToIdleBots_allBots(S) ==
  LET idleBots == S.bots
  IN IF Len(idleBots) = 0 \/ isEmpty(S.orderQueue)
     THEN S
     ELSE assignLoop(S, idleBots)

\* the idle bots are served most recently added first
_assignOrdersToIdleBots_lastIdleFirst(S) ==
  LET idleBots == SelectSeq(S.bots, LAMBDA b : isIdle(S.bot[b]))
      reversed == [i \in 1..Len(idleBots) |-> idleBots[Len(idleBots) + 1 - i]]
  IN IF Len(idleBots) = 0 \/ isEmpty(S.orderQueue)
     THEN S
     ELSE assignLoop(S, reversed)

_assignOrdersToIdleBots(S) ==
  LET idleBots == SelectSeq(S.bots, LAMBDA b : isIdle(S.bot[b]))
  IN IF Len(idleBots) = 0 \/ isEmpty(S.orderQueue)
     THEN S
     ELSE assignLoop(S, idleBots)

\* the 'created' message is logged after the assignment pass
_createOrder_logsAfterAssign(S, type) ==
  LET n == S.nextOrderNumber
      o == Order(n, type)
      S1 == [S EXCEPT !.nextOrderNumber = @ + 1,
                      !.order = [x \in DOMAIN @ \cup {n} |-> IF x = n THEN o ELSE @[x]],
                      !.orders = Append(@, n)]
      S2 == Stamp([S1 EXCEPT !.orderQueue = enqueue(@, o)], n)
      S3 == _assignOrdersToIdleBots(S2)
      S4 == IF S3.thrown # NoError THEN S3
            ELSE logger(S3, [kind |-> "created", bot |-> Null, order |-> n,
                             type |-> type, status |-> S3.order[n].status])
  IN [S4 EXCEPT !.lastOp = [kind |-> "createOrder", arg |-> type, ret |-> Returned(S4, n),
                            order |-> n, mid |-> getAll(S2.orderQueue)]]

_createOrder(S, type) ==
  LET n == S.nextOrderNumber
      o == Order(n, type)
      S1 == [S EXCEPT !.nextOrderNumber = @ + 1,
                      !.order = [x \in DOMAIN @ \cup {n} |-> IF x = n THEN o ELSE @[x]],
                      !.orders = Append(@, n)]
      S2 == Stamp([S1 EXCEPT !.orderQueue = enqueue(@, o)], n)
      S3 == logger(S2, [kind |-> "created", bot |-> Null, order |-> n,
                        type |-> type, status |-> S2.order[n].status])
      S4 == IF S3.thrown # NoError THEN S3 ELSE _assignOrdersToIdleBots(S3)
  IN [S4 EXCEPT !.lastOp = [kind |-> "createOrder", arg |-> type, ret |-> Returned(S4, n),
                            order |-> n, mid |-> getAll(S2.orderQueue)]]

createNormalOrder(S) == _createOrder(S, ORDER_TYPES.NORMAL)

createVIPOrder(S) == _createOrder(S, ORDER_TYPES.VIP)

\* no assignment pass after the bot is added
addBot_noAssign(S) ==
  LET id == S.nextBotId
      S1 == [S EXCEPT !.nextBotId = @ + 1,
                      !.bot = [x \in DOMAIN @ \cup {id} |-> IF x = id THEN Bot(id) ELSE @[x]],
                      !.bots = Append(@, id),
                      !.made = Append(@, id)]
      S2 == logger(S1, [kind |-> "botCreated", bot |-> id, order |-> Null,
                        type |-> Null, status |-> Null])
  IN [S2 EXCEPT !.lastOp = [kind |-> "addBot", arg |-> Null, ret |-> Returned(S2, id),
                            order |-> Null, mid |-> getAll(S2.orderQueue)]]

\* the id is derived from the pool size instead of the nextBotId sequence
addBot_idFromPoolSize(S) ==
  LET id == Len(S.bots) + STARTING_BOT_ID
      S1 == [S EXCEPT !.nextBotId = @ + 1,
                      !.bot = [x \in DOMAIN @ \cup {id} |-> IF x = id THEN Bot(id) ELSE @[x]],
                      !.bots = Append(@, id),
                      !.made = Append(@, id)]
      S2 == logger(S1, [kind |-> "botCreated", bot |-> id, order |-> Null,
                        type |-> Null, status |-> Null])
      S3 == IF S2.thrown # NoError THEN S2 ELSE _assignOrdersToIdleBots(S2)
  IN [S3 EXCEPT !.lastOp = [kind |-> "addBot", arg |-> Null, ret |-> Returned(S3, id),
                            order |-> Null, mid |-> getAll(S2.orderQueue)]]

addBot(S) ==
  LET id == S.nextBotId
      S1 == [S EXCEPT !.nextBotId = @ + 1,
                      !.bot = [x \in DOMAIN @ \cup {id} |-> IF x = id THEN Bot(id) ELSE @[x]],
                      !.bots = Append(@, id),
                      !.made = Append(@, id)]
      S2 == logger(S1, [kind |-> "botCreated", bot |-> id, order |-> Null,
                        type |-> Null, status |-> Null])
      S3 == IF S2.thrown # NoError THEN S2 ELSE _assignOrdersToIdleBots(S2)
  IN [S3 EXCEPT !.lastOp = [kind |-> "addBot", arg |-> Null, ret |-> Returned(S3, id),
                            order |-> Null, mid |-> getAll(S2.orderQueue)]]

\* shift() instead of pop(): the bot added first is removed
removeBot_takesFirst(S) ==
  IF Len(S.bots) = 0
  THEN [S EXCEPT !.lastOp = [kind |-> "removeBot", arg |-> Null, ret |-> Null,
                             order |-> Null, mid |-> getAll(S.orderQueue)]]
  ELSE LET b == S.bots[1]
           S1 == [S EXCEPT !.bots = Tail(@)]
           r == stopProcessing(S1, b)
           o == r.ret
           S2 == IF o # Null
                 THEN logger(Stamp([r.S EXCEPT !.orderQueue = enqueue(@, r.S.order[o])], o),
                             [kind |-> "destroyedProcessing", bot |-> b, order |-> o,
                              type |-> Null, status |-> Null])
                 ELSE logger(r.S, [kind |-> "destroyedIdle", bot |-> b, order |-> Null,
                                   type |-> Null, status |-> Null])
           S3 == IF S2.thrown = NoError /\ o # Null THEN _assignOrdersToIdleBots(S2) ELSE S2
       IN [S3 EXCEPT !.lastOp = [kind |-> "removeBot", arg |-> Null, ret |-> Returned(S3, b),
                                 order |-> o, mid |-> getAll(S2.orderQueue)]]

\* no check for an empty pool: pop() gives undefined and the call on it throws
removeBot_noEmptyCheck(S) ==
  IF Len(S.bots) = 0
  THEN [S EXCEPT !.thrown = "TypeError",
                 !.lastOp = [kind |-> "removeBot", arg |-> Null, ret |-> Null,
                             order |-> Null, mid |-> getAll(S.orderQueue)]]
  ELSE LET b == S.bots[Len(S.bots)]
           S1 == [S EXCEPT !.bots = SubSeq(@, 1, Len(@) - 1)]
           r == stopProcessing(S1, b)
           o == r.ret
           S2 == IF o # Null
                 THEN logger(Stamp([r.S EXCEPT !.orderQueue = enqueue(@, r.S.order[o])], o),
                             [kind |-> "destroyedProcessing", bot |-> b, order |-> o,
                              type |-> Null, status |-> Null])
                 ELSE logger(r.S, [kind |-> "destroyedIdle", bot |-> b, order |-> Null,
                                   type |-> Null, status |-> Null])
           S3 == IF S2.thrown = NoError /\ o # Null THEN _assignOrdersToIdleBots(S2) ELSE S2
       IN [S3 EXCEPT !.lastOp = [kind |-> "removeBot", arg |-> Null, ret |-> Returned(S3, b),
                                 order |-> o, mid |-> getAll(S2.orderQueue)]]

\* no assignment pass after the order of the removed bot is enqueued again
removeBot_noAssign(S) ==
  IF Len(S.bots) = 0
  THEN [S EXCEPT !.lastOp = [kind |-> "removeBot", arg |-> Null, ret |-> Null,
                             order |-> Null, mid |-> getAll(S.orderQueue)]]
  ELSE LET b == S.bots[Len(S.bots)]
           S1 == [S EXCEPT !.bots = SubSeq(@, 1, Len(@) - 1)]
           r == stopProcessing(S1, b)
           o == r.ret
           S2 == IF o # Null
                 THEN logger(Stamp([r.S EXCEPT !.orderQueue = enqueue(@, r.S.order[o])], o),
                             [kind |-> "destroyedProcessing", bot |-> b, order |-> o,
                              type |-> Null, status |-> Null])
                 ELSE logger(r.S, [kind |-> "destroyedIdle", bot |-> b, order |-> Null,
                                   type |-> Null, status |-> Null])
       IN [S2 EXCEPT !.lastOp = [kind |-> "removeBot", arg |-> Null, ret |-> Returned(S2, b),
                                 order |-> o, mid |-> getAll(S2.orderQueue)]]

removeBot(S) ==
  IF Len(S.bots) = 0
  THEN [S EXCEPT !.lastOp = [kind |-> "removeBot", arg |-> Null, ret |-> Null,
                             order |-> Null, mid |-> getAll(S.orderQueue)]]
  ELSE LET b == S.bots[Len(S.bots)]
           S1 == [S EXCEPT !.bots = SubSeq(@, 1, Len(@) - 1)]
           r == stopProcessing(S1, b)
           o == r.ret
           S2 == IF o # Null
                 THEN logger(Stamp([r.S EXCEPT !.orderQueue = enqueue(@, r.S.order[o])], o),
                             [kind |-> "destroyedProcessing", bot |-> b, order |-> o,
                              type |-> Null, status |-> Null])
                 ELSE logger(r.S, [kind |-> "destroyedIdle", bot |-> b, order |-> Null,
                                   type |-> Null, status |-> Null])
           S3 == IF S2.thrown = NoError /\ o # Null THEN _assignOrdersToIdleBots(S2) ELSE S2
       IN [S3 EXCEPT !.lastOp = [kind |-> "removeBot", arg |-> Null, ret |-> Returned(S3, b),
                                 order |-> o, mid |-> getAll(S2.orderQueue)]]

\* the idle message is logged whenever the queue is empty, whatever the bot does
_onOrderCompleted_idleWhenQueueEmpty(S, b, o) ==
  LET S1 == [S EXCEPT !.completedOrders = Append(@, o)]
      S2 == logger(S1, [kind |-> "completed", bot |-> b, order |-> o,
                        type |-> S1.order[o].type, status |-> S1.order[o].status])
      S3 == IF S2.thrown # NoError THEN S2 ELSE _assignOrdersToIdleBots(S2)
  IN IF S3.thrown # NoError THEN S3
     ELSE IF isEmpty(S3.orderQueue)
          THEN logger(S3, [kind |-> "idle", bot |-> b, order |-> Null,
                           type |-> Null, status |-> Null])
          ELSE S3

\* no assignment pass after a completion
_onOrderCompleted_noAssign(S, b, o) ==
  LET S1 == [S EXCEPT !.completedOrders = Append(@, o)]
      S2 == logger(S1, [kind |-> "completed", bot |-> b, order |-> o,
                        type |-> S1.order[o].type, status |-> S1.order[o].status])
  IN IF S2.thrown # NoError THEN S2
     ELSE IF isEmpty(S2.orderQueue) /\ isIdle(S2.bot[b])
          THEN logger(S2, [kind |-> "idle", bot |-> b, order |-> Null,
                           type |-> Null, status |-> Null])
          ELSE S2

_onOrderCompleted(S, b, o) ==
  LET S1 == [S EXCEPT !.completedOrders = Append(@, o)]
      S2 == logger(S1, [kind |-> "completed", bot |-> b, order |-> o,
                        type |-> S1.order[o].type, status |-> S1.order[o].status])
      S3 == IF S2.thrown # NoError THEN S2 ELSE _assignOrdersToIdleBots(S2)
  IN IF S3.thrown # NoError THEN S3
     ELSE IF isEmpty(S3.orderQueue) /\ isIdle(S3.bot[b])
          THEN logger(S3, [kind |-> "idle", bot |-> b, order |-> Null,
                           type |-> Null, status |-> Null])
          ELSE S3

\* Bot.completeOrder(onComplete), where onComplete is the closure built in
\* _assignOrdersToIdleBots: (completedOrder) => _onOrderCompleted(bot, completedOrder)
completeOrder(S, b) ==
  LET S1 == IF S.bot[b].processingTimeout # Null
            THEN [S EXCEPT !.timers = clearTimeout(@, S.bot[b].processingTimeout),
                           !.bot[b].processingTimeout = Null]
            ELSE S
      o == S1.bot[b].currentOrder
  IN IF o # Null
     THEN _onOrderCompleted([S1 EXCEPT !.order[o] = complete(@),
                                       !.bot[b].currentOrder = Null,
                                       !.bot[b].status = BOT_STATUS.IDLE], b, o)
     ELSE [S1 EXCEPT !.bot[b].status = BOT_STATUS.IDLE]

\* The timer callback registered by Bot.startProcessing.  All timers have the
\* same delay PROCESSING_TIME_MS, so the runtime runs the oldest one first.
timerCallback(S) ==
  LET b == Head(S.timers)
      o == S.bot[b].currentOrder
      S1 == completeOrder([S EXCEPT !.timers = Tail(@)], b)
  IN [S1 EXCEPT !.lastOp = [kind |-> "timer", arg |-> b, ret |-> Null,
                            order |-> o, mid |-> getAll(S.orderQueue)]]

\* --------------------------------------------------------------- getters
getStatus ==
  [totalOrders |-> Len(orders),
   vipOrders |-> Len(SelectSeq(orders, LAMBDA n : isVIP(order[n]))),
   normalOrders |-> Len(SelectSeq(orders, LAMBDA n : ~isVIP(order[n]))),
   completedOrders |-> Len(completedOrders),
   pendingOrders |-> size(orderQueue),
   activeBots |-> Len(bots),
   idleBots |-> Len(SelectSeq(bots, LAMBDA b : isIdle(bot[b]))),
   processingBots |-> Len(SelectSeq(bots, LAMBDA b : ~isIdle(bot[b])))]

getPendingOrders == getAll(orderQueue)

getCompletedOrders == completedOrders

getBots == bots

\* ------------------------------------------------------- the state machine
\* A handler starts with an empty record of what it did.
Fresh == [State EXCEPT !.log = <<>>, !.thrown = NoError, !.binds = <<>>]

Apply(S) ==
  /\ orders' = S.orders
  /\ order' = S.order
  /\ orderQueue' = S.orderQueue
  /\ completedOrders' = S.completedOrders
  /\ bots' = S.bots
  /\ bot' = S.bot
  /\ nextOrderNumber' = S.nextOrderNumber
  /\ nextBotId' = S.nextBotId
  /\ timers' = S.timers
  /\ log' = S.log
  /\ thrown' = S.thrown
  /\ lastOp' = S.lastOp
  /\ binds' = S.binds
  /\ enqLog' = S.enqLog
  /\ made' = S.made
  /\ stream' = S.stream
  /\ bindLog' = S.bindLog

Init ==
  /\ orders = <<>>
  /\ order = <<>>
  /\ orderQueue = OrderQueue
  /\ completedOrders = <<>>
  /\ bots = <<>>
  /\ bot = <<>>
  /\ nextOrderNumber = STARTING_ORDER_NUMBER
  /\ nextBotId = STARTING_BOT_ID
  /\ timers = <<>>
  /\ log = <<>>
  /\ thrown = NoError
  /\ lastOp = [kind |-> "init", arg |-> Null, ret |-> Null, order |-> Null, mid |-> <<>>]
  /\ binds = <<>>
  /\ enqLog = <<>>
  /\ made = <<>>
  /\ stream = <<>>
  /\ bindLog = <<>>

CreateNormalOrder ==
  /\ Len(orders) < MaxOrders
  /\ Apply(createNormalOrder(Fresh))

CreateVIPOrder ==
  /\ Len(orders) < MaxOrders
  /\ Apply(createVIPOrder(Fresh))

AddBot ==
  /\ Len(made) < MaxBots
  /\ Apply(addBot(Fresh))

\* removeBot has no precondition: on an empty pool it returns null
RemoveBot ==
  /\ Len(bots) >= 0
  /\ Apply(removeBot(Fresh))

TimerFires ==
  /\ timers # <<>>
  /\ Apply(timerCallback(Fresh))

Next ==
  \/ CreateNormalOrder
  \/ CreateVIPOrder
  \/ AddBot
  \/ RemoveBot
  \/ TimerFires

Spec == Init /\ [][Next]_vars


\* ------------------------------------------------ timers that do fire
\* The runtime runs the callback of a pending setTimeout once its delay has
\* passed: a timer that stays pending fires.  TimerRuns is the step of
\* TimerFires told by the record it leaves: under Next only TimerFires
\* writes this record, it writes a new one each time (the order differs),
\* and it can be taken exactly when a timer is pending.
TimerRuns ==
  /\ timers # <<>>
  /\ lastOp' = [kind |-> "timer", arg |-> Head(timers), ret |-> Null,
                order |-> bot[Head(timers)].currentOrder, mid |-> getAll(orderQueue)]

Fairness == WF_lastOp(TimerRuns)

SpecLive == Init /\ [][Next]_vars /\ Fairness

\* ------------------------------------------- the Bot class used directly
\* Bot.startProcessing is a public method (test.js calls it on a bot that is
\* already processing); here any caller does so with any order, and sees the
\* error it throws.
StartProcessingWhileBusy ==
  \E b \in DOMAIN bot, o \in DOMAIN order :
    /\ bot[b].status # BOT_STATUS.IDLE
    /\ LET S == Bot_startProcessing(Fresh, b, o)
       IN Apply([S EXCEPT !.lastOp = [kind |-> "startProcessing", arg |-> b,
                                      ret |-> Null, order |-> o,
                                      mid |-> getAll(S.orderQueue)]])

NextBotApi ==
  \/ Next
  \/ StartProcessingWhileBusy

SpecBotApi == Init /\ [][NextBotApi]_vars

\* ------------------------------------ the OrderQueue class used directly
\* OrderQueue.dequeue is a public method; the controller calls it only after
\* isEmpty() has said no.  Here any caller calls it on the empty queue.
DequeueWhenEmpty ==
  /\ isEmpty(orderQueue)
  /\ LET d == dequeue(orderQueue, order)
     IN Apply([Fresh EXCEPT !.orderQueue = d.Q,
                            !.lastOp = [kind |-> "dequeue", arg |-> Null, ret |-> d.ret,
                                        order |-> Null, mid |-> getAll(d.Q)]])

NextQueueApi ==
  \/ Next
  \/ DequeueWhenEmpty

SpecQueueApi == Init /\ [][NextQueueApi]_vars

\* clear called on the controller's queue by its owner, while it holds orders
ClearQueue ==
  /\ ~isEmpty(orderQueue)
  /\ LET Q == clear(orderQueue)
     IN Apply([Fresh EXCEPT !.orderQueue = Q,
                            !.lastOp = [kind |-> "clear", arg |-> Null, ret |-> Null,
                                        order |-> Null, mid |-> getAll(Q)]])

NextQueueOwner ==
  \/ Next
  \/ ClearQueue

SpecQueueOwner == Init /\ [][NextQueueOwner]_vars

\* ------------------------------------------- the assignment pass by itself
\* _assignOrdersToIdleBots as a function of the controller's state.  The pass
\* is started in every well-formed state of at most MaxOrders orders and
\* MaxBots bots: each order is in the queue, with one bot or in the completed
\* list, the queue has its VIP orders first, and any number of bots are idle
\* whatever the queue holds (the handlers leave such states when a logger
\* call throws before their pass).
PlaceCompleted == -1   \* the order is in the completed list
PlaceQueue == 0        \* the order is in the queue; b >= 1: bot b holds the order

InitAssignPass ==
  \E nOrders \in 0..MaxOrders, nBots \in 0..MaxBots :
    \E type \in [1..nOrders -> {ORDER_TYPES.NORMAL, ORDER_TYPES.VIP}],
       place \in [1..nOrders -> PlaceCompleted..nBots] :
      LET num(i) == STARTING_ORDER_NUMBER + i - 1
          idx(n) == n - STARTING_ORDER_NUMBER + 1
          queued == {i \in 1..nOrders : place[i] = PlaceQueue}
          held(b) == {i \in 1..nOrders : place[i] = b}
          statusAt(i) == IF place[i] = PlaceQueue THEN ORDER_STATUS.PENDING
                         ELSE IF place[i] = PlaceCompleted THEN ORDER_STATUS.COMPLETE
                         ELSE ORDER_STATUS.PROCESSING
      IN /\ \A b \in 1..nBots : Cardinality(held(b)) <= 1
         /\ orders = [i \in 1..nOrders |-> num(i)]
         /\ order = [n \in {num(i) : i \in 1..nOrders} |->
                       [orderNumber |-> n, type |-> type[idx(n)], status |-> statusAt(idx(n))]]
         /\ \E q \in [1..Cardinality(queued) -> queued] :
              /\ \A i, j \in DOMAIN q : i # j => q[i] # q[j]
              /\ \A i, j \in DOMAIN q :
                   i < j => ~(type[q[i]] = ORDER_TYPES.NORMAL /\ type[q[j]] = ORDER_TYPES.VIP)
              /\ orderQueue = [orders |-> [i \in DOMAIN q |-> num(q[i])],
                               vipOrderCount |-> Cardinality({i \in queued : type[i] = ORDER_TYPES.VIP})]
              /\ enqLog = [i \in 1..nOrders |-> num(i)] \o [i \in DOMAIN q |-> num(q[i])]
         /\ completedOrders = SelectSeq([i \in 1..nOrders |-> num(i)],
                                        LAMBDA n : place[idx(n)] = PlaceCompleted)
         /\ bots = [b \in 1..nBots |-> STARTING_BOT_ID + b - 1]
         /\ bot = [b \in 1..nBots |->
                     IF held(b) = {} THEN Bot(b)
                     ELSE [botId |-> b, status |-> BOT_STATUS.PROCESSING,
                           currentOrder |-> num(CHOOSE i \in held(b) : TRUE),
                           processingTimeout |-> b]]
         /\ nextOrderNumber = STARTING_ORDER_NUMBER + nOrders
         /\ nextBotId = STARTING_BOT_ID + nBots
         /\ timers = SelectSeq([b \in 1..nBots |-> b], LAMBDA b : held(b) # {})
         /\ log = <<>>
         /\ thrown = NoError
         /\ lastOp = [kind |-> "init", arg |-> Null, ret |-> Null, order |-> Null, mid |-> <<>>]
         /\ binds = <<>>
         /\ made = [b \in 1..nBots |-> STARTING_BOT_ID + b - 1]
         /\ stream = <<>>
         /\ bindLog = <<>>

AssignPass ==
  /\ lastOp.kind \in {"init", "assign"}
  /\ LET S == _assignOrdersToIdleBots(Fresh)
     IN Apply([S EXCEPT !.lastOp = [kind |-> "assign", arg |-> Null, ret |-> Null,
                                    order |-> Null, mid |-> getAll(orderQueue)]])

NextAssignPass ==
  \/ AssignPass

SpecAssignPass == InitAssignPass /\ [][NextAssignPass]_vars

\* ------------------------------------------- the getters and their arrays
\* An array as a caller holds it: `held` names the field of the controller
\* whose array it is ("new" for an array that no field holds), `items` are
\* its elements.
Snapshots == {"orderQueue.orders", "completedOrders", "bots"}

ArrayOf(S, field) ==
  [held |-> field,
   items |-> CASE field = "orderQueue.orders" -> S.orderQueue.orders
               [] field = "completedOrders" -> S.completedOrders
               [] field = "bots" -> S.bots]

\* the array itself is handed out
spread_sameArray(a) == a

\* [...a]: a new array with the elements of a
spread(a) == [held |-> "new", items |-> a.items]

\* what getPendingOrders (through getAll), getCompletedOrders and getBots return
snapshotOf(S, field) == spread(ArrayOf(S, field))

\* what a caller can do to an array it holds: push an element it has, pop, reverse
Mutations == {"push", "pop", "reverse"}

mutated(items, m) ==
  CASE m = "push" -> IF items = <<>> THEN items ELSE Append(items, items[1])
    [] m = "pop" -> SubSeq(items, 1, Len(items) - 1)
    [] m = "reverse" -> [i \in 1..Len(items) |-> items[Len(items) + 1 - i]]

\* a write to array a lands in the field that holds it, if any
store(S, a, items) ==
  CASE a.held = "new" -> S
    [] a.held = "orderQueue.orders" -> [S EXCEPT !.orderQueue.orders = items]
    [] a.held = "completedOrders" -> [S EXCEPT !.completedOrders = items]
    [] a.held = "bots" -> [S EXCEPT !.bots = items]

\* The callers of the getters are explored after each handler of the
\* controller: between two handlers the controller does not change.
AfterHandler == lastOp.kind # "getters"

\* A caller calls the four getters one after the other, as displayStatus
\* does, and then changes each array it was given.
CallerUsesGetters ==
  \E m \in Mutations :
    LET status == getStatus
        pendingOrders == snapshotOf(Fresh, "orderQueue.orders")
        completed == snapshotOf(Fresh, "completedOrders")
        pool == snapshotOf(Fresh, "bots")
        S1 == store(Fresh, pendingOrders, mutated(pendingOrders.items, m))
        S2 == store(S1, completed, mutated(completed.items, m))
        S3 == store(S2, pool, mutated(pool.items, m))
    IN /\ AfterHandler
       /\ status.totalOrders >= 0
       /\ Apply([S3 EXCEPT !.lastOp =
                   [kind |-> "getters", arg |-> Null, ret |-> Null, order |-> Null,
                    mid |-> pendingOrders.items]])

NextGetters ==
  \/ Next
  \/ CallerUsesGetters

SpecGetters == Init /\ [][NextGetters]_vars

\* ------------------------------------------------ a logger that may throw
\* The handler starts with a logger that throws at its k-th call (k = 0: never).
FreshFailing(k) == [Fresh EXCEPT !.failAt = k]

\* the logger calls one handler can make: one of its own, one per binding,
\* and the idle message
FailPoints == 0..(MaxBots + 2)

\* An error thrown inside a timer callback is caught by nobody: the Node.js
\* process ends there.
Running == ~(lastOp.kind = "timer" /\ thrown # NoError)

CreateOrderLoggerMayThrow ==
  /\ Running
  /\ Len(orders) < MaxOrders
  /\ \E type \in {ORDER_TYPES.NORMAL, ORDER_TYPES.VIP}, k \in FailPoints :
       Apply(_createOrder(FreshFailing(k), type))

AddBotLoggerMayThrow ==
  /\ Running
  /\ Len(made) < MaxBots
  /\ \E k \in FailPoints : Apply(addBot(FreshFailing(k)))

RemoveBotLoggerMayThrow ==
  /\ Running
  /\ \E k \in FailPoints : Apply(removeBot(FreshFailing(k)))

TimerFiresLoggerMayThrow ==
  /\ Running
  /\ timers # <<>>
  /\ \E k \in FailPoints : Apply(timerCallback(FreshFailing(k)))

NextLoggerThrows ==
  \/ CreateOrderLoggerMayThrow
  \/ AddBotLoggerMayThrow
  \/ RemoveBotLoggerMayThrow
  \/ TimerFiresLoggerMayThrow

SpecLoggerThrows == Init /\ [][NextLoggerThrows]_vars


\* ------------------------------------- the notifications kept per order
\* The same handlers, with every logger call that names an order also kept
\* in `stream`.
Recording == [Fresh EXCEPT !.record = TRUE]

CreateOrderRecorded ==
  /\ Len(orders) < MaxOrders
  /\ \E type \in {ORDER_TYPES.NORMAL, ORDER_TYPES.VIP} :
       Apply(_createOrder(Recording, type))

AddBotRecorded ==
  /\ Len(made) < MaxBots
  /\ Apply(addBot(Recording))

RemoveBotRecorded ==
  /\ Len(bots) >= 0
  /\ Apply(removeBot(Recording))

TimerFiresRecorded ==
  /\ timers # <<>>
  /\ Apply(timerCallback(Recording))

NextStream ==
  \/ CreateOrderRecorded
  \/ AddBotRecorded
  \/ RemoveBotRecorded
  \/ TimerFiresRecorded

SpecStream == Init /\ [][NextStream]_vars

\* ------------------------------------------- the bindings kept in order
\* The same handlers, with every binding of an order to a bot also kept in
\* `bindLog`, in the order the bindings are made.
RecordingBinds == [Fresh EXCEPT !.recordBinds = TRUE]

CreateOrderBindingsKept ==
  /\ Len(orders) < MaxOrders
  /\ \E type \in {ORDER_TYPES.NORMAL, ORDER_TYPES.VIP} :
       Apply(_createOrder(RecordingBinds, type))

AddBotBindingsKept ==
  /\ Len(made) < MaxBots
  /\ Apply(addBot(RecordingBinds))

RemoveBotBindingsKept ==
  /\ Len(bots) >= 0
  /\ Apply(removeBot(RecordingBinds))

TimerFiresBindingsKept ==
  /\ timers # <<>>
  /\ Apply(timerCallback(RecordingBinds))

NextBindings ==
  \/ CreateOrderBindingsKept
  \/ AddBotBindingsKept
  \/ RemoveBotBindingsKept
  \/ TimerFiresBindingsKept

SpecBindings == Init /\ [][NextBindings]_vars

\* ---------------------------------------------------------------- claims
Range(s) == {s[i] : i \in 1..Len(s)}
Count(s, x) == Cardinality({i \in 1..Len(s) : s[i] = x})
\* the position in enqLog of the last enqueue of order n (0 if never enqueued)
LastEnqueue(n) ==
  IF n \in Range(enqLog)
  THEN CHOOSE i \in 1..Len(enqLog) : enqLog[i] = n /\ \A j \in (i + 1)..Len(enqLog) : enqLog[j] # n
  ELSE 0
\* order n has been taken from a removed bot and enqueued again
Preempted(n) == Count(enqLog, n) > 1
PendingSet == {n \in DOMAIN order : order[n].status = ORDER_STATUS.PENDING}
HeldBy(n) == {i \in 1..Len(bots) : bot[bots[i]].currentOrder = n}

\* C1: the pending snapshot holds exactly the pending orders, the VIP ones
\* first, and within each class in the order of their last enqueue; no
\* NORMAL order precedes a VIP order.
C1_PendingOrderedByLastEnqueue ==
  LET q == getPendingOrders
  IN /\ Range(q) = PendingSet
     /\ \A i, j \in 1..Len(q) :
          i < j => /\ ~(~isVIP(order[q[i]]) /\ isVIP(order[q[j]]))
                   /\ order[q[i]].type = order[q[j]].type
                        => LastEnqueue(q[i]) < LastEnqueue(q[j])

\* both classes are queued, two orders of one class among them, one of them
\* enqueued again after its bot was removed
C1_Witness ==
  LET q == getPendingOrders
  IN /\ Len(q) >= 3
     /\ \E i, j \in 1..Len(q) : isVIP(order[q[i]]) /\ ~isVIP(order[q[j]])
     /\ \E i \in 1..Len(q) : Preempted(q[i])

\* C2: whenever a NORMAL order is bound to a bot, no VIP order is in the
\* queue at that moment.
C2_NormalBoundOnlyWhenNoVipPending ==
  \A i \in 1..Len(binds) :
    ~isVIP(order[binds[i].order])
      => \A k \in 1..Len(binds[i].left) : ~isVIP(order[binds[i].left[k]])

\* a NORMAL order is bound while orders stay queued, after a VIP order
\* created later than it has already left the queue
C2_Witness ==
  \E i \in 1..Len(binds) :
    /\ ~isVIP(order[binds[i].order])
    /\ binds[i].left # <<>>
    /\ \E v \in DOMAIN order :
         /\ isVIP(order[v])
         /\ v > binds[i].order
         /\ order[v].status # ORDER_STATUS.PENDING

\* C3: every order ever created is held exactly once, by the queue, by the
\* current-order slot of one bot of the pool, or by the completed list, and
\* these hold nothing else.
C3_OrderHeldExactlyOnce ==
  /\ Range(orders) = DOMAIN order
  /\ Len(orders) = Cardinality(DOMAIN order)
  /\ Range(getPendingOrders) \cup Range(getCompletedOrders) \subseteq DOMAIN order
  /\ \A i \in 1..Len(bots) : bot[bots[i]].currentOrder \in DOMAIN order \cup {Null}
  /\ \A n \in DOMAIN order :
       Count(getPendingOrders, n) + Cardinality(HeldBy(n)) + Count(getCompletedOrders, n) = 1

\* the three places are all occupied and one of the queued orders came back
\* from a removed bot
C3_Witness ==
  /\ getPendingOrders # <<>>
  /\ getCompletedOrders # <<>>
  /\ \E i \in 1..Len(bots) : bot[bots[i]].currentOrder # Null
  /\ \E n \in Range(getPendingOrders) : Preempted(n)

\* C4: an order is PENDING iff it is in the queue, PROCESSING iff it is the
\* current order of a bot of the pool, COMPLETE iff it is in the completed list.
C4_StatusMatchesLocation ==
  \A n \in DOMAIN order :
    /\ order[n].status = ORDER_STATUS.PENDING <=> n \in Range(getPendingOrders)
    /\ order[n].status = ORDER_STATUS.PROCESSING <=> HeldBy(n) # {}
    /\ order[n].status = ORDER_STATUS.COMPLETE <=> n \in Range(getCompletedOrders)

\* an order is back in the queue after its bot was removed, next to a
\* processing and a completed order
C4_Witness ==
  /\ lastOp.kind = "removeBot"
  /\ lastOp.order # Null
  /\ lastOp.order \in Range(getPendingOrders)
  /\ getCompletedOrders # <<>>
  /\ \E i \in 1..Len(bots) : bot[bots[i]].currentOrder # Null

\* C5: for every bot, in the pool or removed: status PROCESSING iff the
\* current order is set iff the timer handle is set iff a timer of the bot
\* is pending in the runtime.
C5_BotStatusOrderTimerAgree ==
  \A b \in DOMAIN bot :
    /\ bot[b].status = BOT_STATUS.PROCESSING <=> bot[b].currentOrder # Null
    /\ bot[b].currentOrder # Null <=> bot[b].processingTimeout # Null
    /\ bot[b].processingTimeout # Null <=> Count(timers, b) = 1
    /\ bot[b].processingTimeout = Null <=> Count(timers, b) = 0

\* a bot removed while processing, a bot that completed an order and a bot
\* still processing exist together
C5_Witness ==
  /\ lastOp.kind = "removeBot"
  /\ lastOp.order # Null
  /\ lastOp.ret \notin Range(bots)
  /\ getCompletedOrders # <<>>
  /\ \E i \in 1..Len(bots) : bot[bots[i]].status = BOT_STATUS.PROCESSING

\* C6: after every handler, the pool holds no IDLE bot while the queue is
\* non-empty.
C6_NoIdleBotWhileOrdersPending ==
  ~(/\ \E i \in 1..Len(bots) : isIdle(bot[bots[i]])
    /\ ~isEmpty(orderQueue))

\* an idle bot has just been removed (no assignment pass ran) while another
\* bot of the pool stays idle
C6_Witness ==
  /\ lastOp.kind = "removeBot"
  /\ lastOp.ret # Null
  /\ lastOp.order = Null
  /\ \E i \in 1..Len(bots) : isIdle(bot[bots[i]])
  /\ getCompletedOrders # <<>>

\* C7: order numbers are 1001, 1002, ... in creation order whatever the
\* type, bot ids are 1, 2, ... in construction order, no id is used twice,
\* and an order keeps its number.
C7_IdsSequential ==
  /\ \A i \in 1..Len(orders) :
       /\ orders[i] = STARTING_ORDER_NUMBER + i - 1
       /\ order[orders[i]].orderNumber = orders[i]
  /\ nextOrderNumber = STARTING_ORDER_NUMBER + Len(orders)
  /\ \A i \in 1..Len(made) : made[i] = STARTING_BOT_ID + i - 1
  /\ nextBotId = STARTING_BOT_ID + Len(made)
  /\ \A b \in DOMAIN bot : bot[b].botId = b
  /\ \A i, j \in 1..Len(bots) : i < j => bots[i] < bots[j]

\* a bot was added after a removal, orders of both types exist and one of
\* them was preempted
C7_Witness ==
  /\ lastOp.kind = "addBot"
  /\ Len(made) > Len(bots)
  /\ \E n, m \in DOMAIN order : isVIP(order[n]) /\ ~isVIP(order[m])
  /\ \E n \in DOMAIN order : Preempted(n)

\* This step is removeBot taking the last bot of the pool while it is PROCESSING.
RemovesProcessingBot ==
  /\ lastOp'.kind = "removeBot"
  /\ bots # <<>>
  /\ bot[bots[Len(bots)]].status = BOT_STATUS.PROCESSING
\* the order of the bot that removeBot takes
PreemptedOrder == bot[bots[Len(bots)]].currentOrder
\* a bot that stays in the pool is idle
IdleBotRemains == \E i \in 1..(Len(bots) - 1) : isIdle(bot[bots[i]])

\* C8 as stated: whenever removeBot removes a bot that is PROCESSING order t,
\* on return t is PENDING and in the pending snapshot, the pool is one
\* smaller and the pending count one greater.
C8_AsStated ==
  [][RemovesProcessingBot =>
       /\ order'[PreemptedOrder].status = ORDER_STATUS.PENDING
       /\ PreemptedOrder \in Range(getPendingOrders')
       /\ Len(bots') = Len(bots) - 1
       /\ size(orderQueue') = size(orderQueue) + 1]_vars

\* C8 (amended): whenever removeBot removes a bot that is PROCESSING order t,
\* the pool is one smaller on return; if no remaining bot is idle, t is
\* PENDING and in the pending snapshot and the pending count is one greater;
\* if a remaining bot is idle, t is PROCESSING again on a remaining bot and
\* the pending count is unchanged.
C8_RemoveProcessingBot ==
  [][RemovesProcessingBot =>
       /\ Len(bots') = Len(bots) - 1
       /\ IF ~IdleBotRemains
          THEN /\ order'[PreemptedOrder].status = ORDER_STATUS.PENDING
               /\ PreemptedOrder \in Range(getPendingOrders')
               /\ size(orderQueue') = size(orderQueue) + 1
          ELSE /\ order'[PreemptedOrder].status = ORDER_STATUS.PROCESSING
               /\ PreemptedOrder \notin Range(getPendingOrders')
               /\ \E i \in 1..Len(bots') : bot'[bots'[i]].currentOrder = PreemptedOrder
               /\ size(orderQueue') = size(orderQueue)]_vars

\* a processing bot has been removed from a pool whose other bots were all
\* busy, and its order is pending again behind orders that were waiting
C8_Witness ==
  /\ lastOp.kind = "removeBot"
  /\ lastOp.order # Null
  /\ order[lastOp.order].status = ORDER_STATUS.PENDING
  /\ bots # <<>>
  /\ size(orderQueue) >= 2

\* C9: the order of a removed PROCESSING bot is enqueued like a new order:
\* a VIP order behind every queued VIP order and ahead of every queued NORMAL
\* order, a NORMAL order behind every queued order; the queue is otherwise
\* unchanged, so the order does not return to the front it was taken from.
C9_PreemptedRequeuedByPriorityRule ==
  [][RemovesProcessingBot =>
       LET t == PreemptedOrder
           q == getPendingOrders
           vips == SelectSeq(q, LAMBDA n : isVIP(order[n]))
           normals == SelectSeq(q, LAMBDA n : ~isVIP(order[n]))
       IN /\ lastOp'.order = t
          /\ IF isVIP(order[t])
             THEN lastOp'.mid = vips \o <<t>> \o normals
             ELSE lastOp'.mid = q \o <<t>>
          /\ ~IdleBotRemains => getPendingOrders' = lastOp'.mid]_vars

\* a preempted VIP order sits behind a VIP order created after it and ahead
\* of a NORMAL order
C9_Witness ==
  LET q == getPendingOrders
  IN /\ lastOp.kind = "removeBot"
     /\ lastOp.order # Null
     /\ isVIP(order[lastOp.order])
     /\ q = lastOp.mid
     /\ \E i, j, k \in 1..Len(q) :
          /\ i < j /\ j < k
          /\ q[j] = lastOp.order
          /\ isVIP(order[q[i]]) /\ q[i] > q[j]
          /\ ~isVIP(order[q[k]])

\* C10 as stated: the pending snapshot is the pending VIP orders in creation
\* order (increasing number) followed by the pending NORMAL orders in
\* creation order.
C10_AsStated ==
  LET q == getPendingOrders
  IN \A i, j \in 1..Len(q) :
       i < j => /\ ~(~isVIP(order[q[i]]) /\ isVIP(order[q[j]]))
                /\ order[q[i]].type = order[q[j]].type => q[i] < q[j]

\* C10 (amended): the pending snapshot is the pending VIP orders followed by
\* the pending NORMAL orders; an order that was never enqueued again after a
\* bot removal is preceded, within its class, only by orders created before
\* it; so the front order is of the highest pending class, and it is the
\* earliest-created of that class unless an order of that class in the queue
\* was enqueued again.
C10_CreationOrderUnlessRequeued ==
  LET q == getPendingOrders
      sameClass(n) == {m \in Range(q) : order[m].type = order[n].type}
  IN /\ \A i, j \in 1..Len(q) :
          i < j => /\ ~(~isVIP(order[q[i]]) /\ isVIP(order[q[j]]))
                   /\ (order[q[i]].type = order[q[j]].type /\ ~Preempted(q[j]))
                        => q[i] < q[j]
     /\ q # <<>> =>
          /\ (\E n \in Range(q) : isVIP(order[n])) => isVIP(order[q[1]])
          /\ (\A m \in sameClass(q[1]) : ~Preempted(m))
               => \A m \in sameClass(q[1]) : q[1] <= m

\* orders of both classes wait, two of one class, after orders were taken
\* from the queue, one of them enqueued again
C10_Witness ==
  LET q == getPendingOrders
  IN /\ \E i, j \in 1..Len(q) :
          i < j /\ order[q[i]].type = order[q[j]].type /\ ~Preempted(q[j]) /\ Preempted(q[i])
     /\ \E i, j \in 1..Len(q) : isVIP(order[q[i]]) /\ ~isVIP(order[q[j]])

\* This step is the timer callback of the bot whose timer is the oldest.
TimerStep == lastOp'.kind = "timer"
\* This step is removeBot on a pool that holds a bot.
RemoveStep == lastOp'.kind = "removeBot" /\ bots # <<>>
\* the bots that were removed from the pool
RemovedBots == DOMAIN bot \ Range(bots)
\* the idle bots of the pool, in insertion order
IdleBots == SelectSeq(bots, LAMBDA b : isIdle(bot[b]))

\* C11: removing a bot cancels its timer: no timer of a removed bot stays
\* pending, so every timer callback runs for a bot of the pool that holds an
\* order, and an order enters the completed list only through the callback
\* of the pool bot it is currently bound to; the order taken from a removed
\* bot is not completed by that removal.
C11_RemovalCancelsTimer ==
  [][/\ \A b \in RemovedBots : Count(timers, b) = 0
     /\ TimerStep =>
          /\ Head(timers) \in Range(bots)
          /\ bot[Head(timers)].currentOrder # Null
          /\ completedOrders' = Append(completedOrders, bot[Head(timers)].currentOrder)
     /\ ~TimerStep => completedOrders' = completedOrders
     /\ RemovesProcessingBot =>
          /\ Count(timers', bots[Len(bots)]) = 0
          /\ bot'[bots[Len(bots)]].processingTimeout = Null
          /\ order'[PreemptedOrder].status # ORDER_STATUS.COMPLETE]_vars

\* an order taken from a removed bot has just been completed by a bot of the
\* pool
C11_Witness ==
  /\ lastOp.kind = "timer"
  /\ lastOp.order # Null
  /\ Preempted(lastOp.order)
  /\ lastOp.order \in Range(completedOrders)
  /\ lastOp.arg \in Range(bots)
  /\ RemovedBots # {}

\* C12: on a non-empty pool removeBot removes and returns the bot added
\* last (the largest id in the pool); the other bots keep their order, and
\* none of them changes, except that at most one of them, idle before, takes
\* the order of the removed bot.
C12_RemovesLastAddedBot ==
  [][RemoveStep =>
       LET last == bots[Len(bots)]
           changed == {b \in Range(bots') : bot'[b] # bot[b]}
       IN /\ lastOp'.ret = last
          /\ \A i \in 1..Len(bots) : bots[i] <= last
          /\ bots' = SubSeq(bots, 1, Len(bots) - 1)
          /\ Cardinality(changed) <= 1
          /\ \A b \in Range(bots') \ changed : Count(timers', b) = Count(timers, b)
          /\ \A b \in changed :
               /\ isIdle(bot[b])
               /\ PreemptedOrder # Null
               /\ bot'[b] = [botId |-> b, status |-> BOT_STATUS.PROCESSING,
                             currentOrder |-> PreemptedOrder, processingTimeout |-> b]
               /\ Count(timers', b) = 1]_vars

\* the last of three bots was removed while processing and an idle bot took
\* its order, next to a bot that went on processing
C12_Witness ==
  /\ lastOp.kind = "removeBot"
  /\ lastOp.order # Null
  /\ Len(bots) >= 2
  /\ \E i \in 1..Len(bots) : bot[bots[i]].currentOrder = lastOp.order
  /\ \E i \in 1..Len(bots) : bot[bots[i]].currentOrder \notin {Null, lastOp.order}

\* C13: createOrder returns the new order; if a bot of the pool is idle at
\* the call, on return the order is PROCESSING on the idle bot added first
\* and nothing is pending; if none is idle, the order is PENDING, the pending
\* count has grown by one and the order is the last of its class in the queue.
C13_CreateOrderOutcome ==
  [][lastOp'.kind = "createOrder" =>
       LET n == nextOrderNumber
           q == getPendingOrders'
       IN /\ lastOp'.ret = n
          /\ n \notin DOMAIN order
          /\ order'[n].type = lastOp'.arg
          /\ IF IdleBots # <<>>
             THEN /\ order'[n].status = ORDER_STATUS.PROCESSING
                  /\ bot'[IdleBots[1]].currentOrder = n
                  /\ size(orderQueue') = 0
             ELSE /\ order'[n].status = ORDER_STATUS.PENDING
                  /\ size(orderQueue') = size(orderQueue) + 1
                  /\ SelectSeq(q, LAMBDA m : m # n) = getPendingOrders
                  /\ \E i \in 1..Len(q) :
                       /\ q[i] = n
                       /\ \A j \in (i + 1)..Len(q) : order'[q[j]].type # order'[n].type
                       /\ \A j \in 1..(i - 1) : isVIP(order'[n]) => isVIP(order'[q[j]])]_vars

\* a new order went to the second bot of the pool, the first one being busy
\* and the third one idle too
C13_Witness ==
  /\ lastOp.kind = "createOrder"
  /\ Len(bots) = 3
  /\ bot[bots[1]].currentOrder \notin {Null, lastOp.ret}
  /\ bot[bots[2]].currentOrder = lastOp.ret
  /\ isIdle(bot[bots[3]])

\* C14: addBot appends the new bot and returns it; if the queue was not
\* empty, the new bot is PROCESSING the order that was at the front, one
\* order fewer is pending and no other bot has changed; if the queue was
\* empty, the new bot is IDLE and queue, orders, bots and completed list are
\* as before.
C14_AddBotOutcome ==
  [][lastOp'.kind = "addBot" =>
       LET id == lastOp'.ret
           q == getPendingOrders
       IN /\ id \notin DOMAIN bot
          /\ bots' = Append(bots, id)
          /\ \A b \in DOMAIN bot : bot'[b] = bot[b]
          /\ completedOrders' = completedOrders
          /\ orders' = orders
          /\ IF q # <<>>
             THEN /\ bot'[id].status = BOT_STATUS.PROCESSING
                  /\ bot'[id].currentOrder = Head(q)
                  /\ order'[Head(q)].status = ORDER_STATUS.PROCESSING
                  /\ getPendingOrders' = Tail(q)
                  /\ size(orderQueue') = size(orderQueue) - 1
             ELSE /\ bot'[id] = Bot(id)
                  /\ orderQueue' = orderQueue
                  /\ order' = order
                  /\ timers' = timers]_vars

\* a bot was added to a pool of busy bots while two orders were waiting, and
\* took the front one
C14_Witness ==
  /\ lastOp.kind = "addBot"
  /\ Len(bots) >= 2
  /\ Len(lastOp.mid) >= 2
  /\ bot[lastOp.ret].currentOrder = Head(lastOp.mid)
  /\ getPendingOrders = Tail(lastOp.mid)

\* C15: when the timer of a bot fires, its order becomes COMPLETE and is
\* appended to the completed list; if an order is pending, the same bot is
\* bound to the front order within the handler and one order fewer is
\* pending; if none is pending, the bot is IDLE.
C15_TimerFiresOutcome ==
  [][TimerStep =>
       LET b == Head(timers)
           o == bot[b].currentOrder
           q == getPendingOrders
       IN /\ o # Null
          /\ order'[o].status = ORDER_STATUS.COMPLETE
          /\ completedOrders' = Append(completedOrders, o)
          /\ Len(completedOrders') = Len(completedOrders) + 1
          /\ IF q # <<>>
             THEN /\ bot'[b].status = BOT_STATUS.PROCESSING
                  /\ bot'[b].currentOrder = Head(q)
                  /\ getPendingOrders' = Tail(q)
                  /\ size(orderQueue') = size(orderQueue) - 1
             ELSE /\ isIdle(bot'[b])
                  /\ bot'[b].currentOrder = Null
                  /\ getPendingOrders' = <<>>]_vars

\* a bot completed an order and went on with the front order of a queue of
\* two
C15_Witness ==
  /\ lastOp.kind = "timer"
  /\ Len(lastOp.mid) >= 2
  /\ bot[lastOp.arg].currentOrder = Head(lastOp.mid)
  /\ completedOrders # <<>>
  /\ completedOrders[Len(completedOrders)] = lastOp.order
  /\ getPendingOrders = Tail(lastOp.mid)

\* the controller's state, without the record of the last handler
program == <<orders, order, orderQueue, completedOrders, bots, bot,
             nextOrderNumber, nextBotId, timers>>

\* C16: startProcessing on a bot that is already PROCESSING throws 'Bot is
\* already processing an order' and changes nothing: the bot keeps its
\* order, status and timer, and the rejected order keeps its status.
C16_BusyBotRejectsOrder ==
  [][lastOp'.kind = "startProcessing" =>
       /\ thrown' = BusyError
       /\ bot' = bot
       /\ order' = order
       /\ timers' = timers
       /\ UNCHANGED program]_vars

\* a processing bot has rejected a pending order that is not its own
C16_Witness ==
  /\ lastOp.kind = "startProcessing"
  /\ thrown = "Bot is already processing an order"
  /\ bot[lastOp.arg].status = BOT_STATUS.PROCESSING
  /\ bot[lastOp.arg].currentOrder # lastOp.order
  /\ order[lastOp.order].status = ORDER_STATUS.PENDING

\* C17: removeBot on an empty pool returns null, throws nothing, logs
\* nothing, and leaves queue, completed list, orders and both id counters
\* unchanged.
C17_RemoveBotOnEmptyPool ==
  [][(lastOp'.kind = "removeBot" /\ bots = <<>>) =>
       /\ lastOp'.ret = Null
       /\ thrown' = NoError
       /\ log' = <<>>
       /\ UNCHANGED program]_vars

\* removeBot has returned null on a pool emptied by removals, with orders
\* pending and completed
C17_Witness ==
  /\ lastOp.kind = "removeBot"
  /\ lastOp.ret = Null
  /\ bots = <<>>
  /\ made # <<>>
  /\ getPendingOrders # <<>>
  /\ getCompletedOrders # <<>>

\* C18: a failure of the injected logger does not come out of createOrder,
\* addBot, removeBot or the timer handler, and the handler still applies all
\* its effects, its assignment pass included (so no idle bot is left next to
\* a pending order).
C18_LoggerFailureContained ==
  /\ thrown # LoggerError
  /\ ~(IdleBots # <<>> /\ ~isEmpty(orderQueue))

\* C19: every handler is all-or-nothing: when it ends in a failure the
\* controller's state is as before the call; a failed handler leaves no
\* order queued next to an idle bot and no COMPLETE order outside the
\* completed list.
C19_AllOrNothing ==
  [][thrown' # NoError =>
       /\ UNCHANGED program
       /\ ~(IdleBots' # <<>> /\ ~isEmpty(orderQueue'))
       /\ \A n \in DOMAIN order' :
            order'[n].status = ORDER_STATUS.COMPLETE => n \in Range(completedOrders')]_vars

\* C20: getStatus agrees with the state and with itself: totalOrders is the
\* number of orders created and equals vipOrders + normalOrders; totalOrders
\* = pendingOrders + processingBots + completedOrders; activeBots = idleBots
\* + processingBots = size of the pool.
C20_StatusConsistent ==
  LET st == getStatus
  IN /\ st.totalOrders = nextOrderNumber - STARTING_ORDER_NUMBER
     /\ st.totalOrders = Cardinality(Range(enqLog))
     /\ st.totalOrders = st.vipOrders + st.normalOrders
     /\ st.vipOrders = Cardinality({n \in DOMAIN order : isVIP(order[n])})
     /\ st.totalOrders = st.pendingOrders + st.processingBots + st.completedOrders
     /\ st.pendingOrders = Cardinality(PendingSet)
     /\ st.activeBots = st.idleBots + st.processingBots
     /\ st.activeBots = Len(bots)

\* a NORMAL order is pending, a VIP order exists, one order is being
\* processed and one is completed, after a bot was removed
C20_Witness ==
  LET st == getStatus
  IN /\ st.pendingOrders >= 1
     /\ st.processingBots >= 1
     /\ st.completedOrders >= 1
     /\ st.vipOrders >= 1
     /\ \E n \in PendingSet : ~isVIP(order[n])
     /\ RemovedBots # {}


\* C23: over every sequence of createOrder, addBot, removeBot and timer
\* firings, the controller never calls startProcessing on a bot that is
\* already PROCESSING: the 'already processing' error is never raised, and
\* no bot is bound twice by one handler.
C23_NeverAssignsToBusyBot ==
  /\ thrown # BusyError
  /\ thrown = NoError
  /\ \A i, j \in 1..Len(binds) : i # j => binds[i].bot # binds[j].bot

\* an assignment pass has bound an order to an idle bot that stands behind a
\* PROCESSING bot of the pool, which the pass has left alone, with orders
\* still queued
C23_Witness ==
  /\ Len(binds) = 1
  /\ ~isEmpty(orderQueue)
  /\ \E i, j \in 1..Len(bots) :
       /\ i < j
       /\ bots[j] = binds[1].bot
       /\ bot[bots[i]].status = BOT_STATUS.PROCESSING
       /\ bot[bots[i]].currentOrder # binds[1].order


\* C24: the status of an order changes only from PENDING to PROCESSING (in
\* a handler that binds it), from PROCESSING to COMPLETE (in the timer
\* callback of the bot that holds it) and from PROCESSING to PENDING (in the
\* removeBot that takes its bot); COMPLETE is terminal; a new order starts
\* PENDING, or PROCESSING if its own createOrder binds it; the completed
\* list changes only by one order appended at the end, and holds no order
\* twice.
C24_StatusTransitions ==
  [][/\ DOMAIN order \subseteq DOMAIN order'
     /\ \A n \in DOMAIN order :
          LET from == order[n].status
              to == order'[n].status
          IN from # to =>
               \/ /\ from = ORDER_STATUS.PENDING
                  /\ to = ORDER_STATUS.PROCESSING
                  /\ \E i \in 1..Len(binds') : binds'[i].order = n
               \/ /\ from = ORDER_STATUS.PROCESSING
                  /\ to = ORDER_STATUS.COMPLETE
                  /\ TimerStep
                  /\ bot[Head(timers)].currentOrder = n
               \/ /\ from = ORDER_STATUS.PROCESSING
                  /\ to = ORDER_STATUS.PENDING
                  /\ RemovesProcessingBot
                  /\ PreemptedOrder = n
     /\ \A n \in DOMAIN order' \ DOMAIN order :
          \/ order'[n].status = ORDER_STATUS.PENDING
          \/ /\ order'[n].status = ORDER_STATUS.PROCESSING
             /\ \E i \in 1..Len(binds') : binds'[i].order = n
     /\ \/ completedOrders' = completedOrders
        \/ \E n \in DOMAIN order :
             /\ n \notin Range(completedOrders)
             /\ completedOrders' = Append(completedOrders, n)
     /\ \A n \in DOMAIN order' : Count(completedOrders', n) <= 1]_vars

\* an order that went back to PENDING when its bot was removed has been
\* bound again and has just become COMPLETE, behind another completed order
C24_Witness ==
  /\ lastOp.kind = "timer"
  /\ Preempted(lastOp.order)
  /\ order[lastOp.order].status = ORDER_STATUS.COMPLETE
  /\ Len(completedOrders) >= 2
  /\ completedOrders[Len(completedOrders)] = lastOp.order


\* C25: a bot that removeBot has returned is IDLE with no current order and
\* no timer, is not in the pool snapshot nor in the bot counts, is bound to
\* no order and named in no notification other than that of its own
\* destruction; when removeBot returns, the order it held has been taken
\* from it and put back in the queue as PENDING.
C25_RemovedBotIsInert ==
  /\ \A b \in RemovedBots :
       /\ bot[b] = Bot(b)
       /\ isIdle(bot[b])
       /\ Count(timers, b) = 0
       /\ b \notin Range(getBots)
       /\ \A i \in 1..Len(binds) : binds[i].bot # b
       /\ \A i \in 1..Len(log) :
            log[i].bot = b =>
              /\ lastOp.kind = "removeBot"
              /\ lastOp.ret = b
              /\ log[i].kind \in {"destroyedProcessing", "destroyedIdle"}
  /\ getStatus.activeBots = Cardinality(DOMAIN bot \ RemovedBots)
  /\ getStatus.idleBots = Cardinality({b \in DOMAIN bot \ RemovedBots : isIdle(bot[b])})
  /\ getStatus.processingBots = Cardinality({b \in DOMAIN bot \ RemovedBots : ~isIdle(bot[b])})
  /\ (lastOp.kind = "removeBot" /\ lastOp.order # Null) =>
       /\ lastOp.ret \in RemovedBots
       /\ lastOp.order \in Range(lastOp.mid)
       /\ enqLog[Len(enqLog)] = lastOp.order
       /\ order[lastOp.order].status # ORDER_STATUS.COMPLETE
       /\ order[lastOp.order].status = ORDER_STATUS.PENDING
            <=> lastOp.order \in Range(getPendingOrders)

\* a bot was removed while processing; later a timer fired and the pass of
\* that handler bound the order it had held to a bot of the pool
C25_Witness ==
  /\ lastOp.kind = "timer"
  /\ Len(binds) = 1
  /\ Preempted(binds[1].order)
  /\ binds[1].bot \in Range(bots)
  /\ RemovedBots # {}


\* C27: the timer callback of bot w logs the completion of its order and
\* then exactly one more event: either the pick-up that binds w to a pending
\* order, or 'w is now IDLE - No pending orders'; the idle event is logged
\* iff the queue is empty and w is IDLE after the assignment pass, and no
\* other handler logs it (addBot with an empty queue does not).
C27_TimerLogsPickUpOrIdle ==
  IF lastOp.kind = "timer"
  THEN LET w == lastOp.arg
       IN /\ Len(log) = 2
          /\ log[1].kind = "completed"
          /\ log[1].bot = w
          /\ log[1].order = lastOp.order
          /\ log[2].bot = w
          /\ log[2].kind \in {"pickedUp", "idle"}
          /\ log[2].kind = "pickedUp" =>
               /\ bot[w].currentOrder = log[2].order
               /\ log[2].order = Head(lastOp.mid)
               /\ binds = <<[bot |-> w, order |-> log[2].order, left |-> getPendingOrders]>>
          /\ log[2].kind = "idle" <=> (isEmpty(orderQueue) /\ isIdle(bot[w]))
          /\ log[2].kind = "idle" => binds = <<>>
  ELSE \A i \in 1..Len(log) : log[i].kind # "idle"

\* the bot whose timer fired took the only pending order: the queue is empty
\* after the pass and no idle event was logged
C27_Witness ==
  /\ lastOp.kind = "timer"
  /\ Len(log) = 2
  /\ log[2].kind = "pickedUp"
  /\ log[2].bot = lastOp.arg
  /\ isEmpty(orderQueue)
  /\ Len(bots) >= 2


\* C28: stopProcessing on an IDLE bot (removeBot calls it on the bot it has
\* popped) does nothing: it returns null and throws nothing, the bot stays
\* IDLE with no order and no timer, and no order, bot or timer changes.
C28_StopIdleBotIsNoOp ==
  [][(RemoveStep /\ isIdle(bot[bots[Len(bots)]])) =>
       LET b == bots[Len(bots)]
       IN /\ lastOp'.order = Null
          /\ thrown' = NoError
          /\ bot'[b] = bot[b]
          /\ isIdle(bot'[b])
          /\ bot'[b].currentOrder = Null
          /\ bot'[b].processingTimeout = Null
          /\ Count(timers', b) = 0
          /\ order' = order
          /\ bot' = bot
          /\ timers' = timers]_vars

\* an IDLE bot that had completed an order was stopped and removed while
\* another bot of the pool was processing
C28_Witness ==
  /\ lastOp.kind = "removeBot"
  /\ lastOp.ret # Null
  /\ lastOp.order = Null
  /\ log = <<[kind |-> "destroyedIdle", bot |-> lastOp.ret, order |-> Null,
              type |-> Null, status |-> Null]>>
  /\ completedOrders # <<>>
  /\ \E i \in 1..Len(bots) : bot[bots[i]].status = BOT_STATUS.PROCESSING


\* the notifications s of one order fit: 'created', then any number of
\* ('picked up by w', 'w destroyed while processing'), then possibly a last
\* 'picked up' and one 'completed' after it
FitsPattern(s) ==
  /\ Len(s) >= 1
  /\ s[1].kind = "created"
  /\ \A i \in 2..Len(s) :
       \/ /\ s[i].kind = "pickedUp"
          /\ s[i - 1].kind \in {"created", "destroyedProcessing"}
       \/ /\ s[i].kind = "destroyedProcessing"
          /\ s[i - 1].kind = "pickedUp"
          /\ s[i - 1].bot = s[i].bot
       \/ /\ s[i].kind = "completed"
          /\ s[i - 1].kind = "pickedUp"
          /\ i = Len(s)
\* the events of the last handler of the given kinds
Events(kinds) == SelectSeq(log, LAMBDA e : e.kind \in kinds)

\* C26: the notifications of each order are: one 'created', then zero or
\* more times ('picked up by bot w', 'bot w destroyed while processing'),
\* then possibly a last 'picked up' followed by exactly one 'completed'; an
\* order has its 'created' before its first 'picked up'; every binding logs
\* exactly one 'picked up', and every removeBot on a non-empty pool logs
\* exactly one 'destroyed' message.
C26_NotificationPattern ==
  LET picked == Events({"pickedUp"})
      destroyed == Events({"destroyedProcessing", "destroyedIdle"})
  IN /\ DOMAIN stream = DOMAIN order
     /\ \A n \in DOMAIN stream :
          LET kinds == [i \in 1..Len(stream[n]) |-> stream[n][i].kind]
          IN /\ FitsPattern(stream[n])
             /\ Count(kinds, "created") = 1
             /\ Count(kinds, "completed")
                  = IF order[n].status = ORDER_STATUS.COMPLETE THEN 1 ELSE 0
     /\ Len(picked) = Len(binds)
     /\ \A i \in 1..Len(binds) :
          /\ picked[i].bot = binds[i].bot
          /\ picked[i].order = binds[i].order
     /\ (lastOp.kind = "removeBot" /\ lastOp.ret # Null) =>
          /\ Len(destroyed) = 1
          /\ destroyed[1].bot = lastOp.ret
     /\ lastOp.kind # "removeBot" => destroyed = <<>>

\* an order was picked up, lost its bot twice and was completed by a third bot
C26_Witness ==
  \E n \in DOMAIN stream :
    /\ Len(stream[n]) = 7
    /\ stream[n][7].kind = "completed"
    /\ stream[n][3].kind = "destroyedProcessing"
    /\ stream[n][5].kind = "destroyedProcessing"
    /\ stream[n][3].bot # stream[n][5].bot


\* C29: dequeue on an empty queue returns null and throws nothing; the
\* queue's orders, its size and its cached VIP count are as before, and the
\* count is not below zero.
C29_DequeueOnEmptyQueue ==
  [][lastOp'.kind = "dequeue" =>
       /\ lastOp'.ret = Null
       /\ thrown' = NoError
       /\ orderQueue'.orders = orderQueue.orders
       /\ getAll(orderQueue') = <<>>
       /\ size(orderQueue') = size(orderQueue)
       /\ orderQueue'.vipOrderCount = orderQueue.vipOrderCount
       /\ orderQueue'.vipOrderCount >= 0
       /\ UNCHANGED program]_vars

\* dequeue has returned null on a queue that VIP orders have passed through
\* and that is empty again, while a bot is processing
C29_Witness ==
  /\ lastOp.kind = "dequeue"
  /\ lastOp.ret = Null
  /\ isEmpty(orderQueue)
  /\ orderQueue.vipOrderCount = 0
  /\ \E n \in DOMAIN order : isVIP(order[n]) /\ Preempted(n)
  /\ \E i \in 1..Len(bots) : bot[bots[i]].status = BOT_STATUS.PROCESSING


\* C22: an assignment pass started with p orders in the queue and i idle
\* bots in the pool binds exactly min(i, p) orders: the k-th idle bot in pool
\* order takes the k-th order from the front, for k = 1..min(i, p); the
\* PROCESSING bots, the idle bots beyond min(i, p), the other orders and the
\* rest of the queue, in its order, are untouched.  The pass reads nothing
\* but the queue and the pool, so this fixes its result for given inputs.
C22_PassBindsMinOfIdleAndPending ==
  [][lastOp'.kind = "assign" =>
       LET idle == IdleBots
           q == getPendingOrders
           n == Min(Len(idle), Len(q))
           served == {idle[k] : k \in 1..n}
           taken == {q[k] : k \in 1..n}
       IN /\ thrown' = NoError
          /\ Len(binds') = n
          /\ \A k \in 1..n :
               /\ binds'[k].bot = idle[k]
               /\ binds'[k].order = q[k]
               /\ bot'[idle[k]].status = BOT_STATUS.PROCESSING
               /\ bot'[idle[k]].currentOrder = q[k]
               /\ order'[q[k]].status = ORDER_STATUS.PROCESSING
          /\ getPendingOrders' = SubSeq(q, n + 1, Len(q))
          /\ size(orderQueue') = Len(q) - n
          /\ \A b \in DOMAIN bot \ served : bot'[b] = bot[b]
          /\ \A o \in DOMAIN order \ taken : order'[o] = order[o]
          /\ bots' = bots
          /\ completedOrders' = completedOrders
          /\ timers' = timers \o [k \in 1..n |-> idle[k]]]_vars

\* a pass has bound the two queued orders, the VIP one first, to the two
\* idle bots that stand behind a PROCESSING bot
C22_Witness ==
  /\ lastOp.kind = "assign"
  /\ Len(binds) = 2
  /\ Len(lastOp.mid) = 2
  /\ isVIP(order[binds[1].order])
  /\ ~isVIP(order[binds[2].order])
  /\ binds[1].order > binds[2].order
  /\ getPendingOrders = <<>>
  /\ Len(bots) = 3
  /\ bot[bots[1]].currentOrder \notin {Null, binds[1].order, binds[2].order}
  /\ binds[1].bot = bots[2]
  /\ binds[2].bot = bots[3]


\* C21: getStatus, getPendingOrders, getCompletedOrders and getBots change
\* nothing in the controller, and what they return are copies: a caller that
\* pushes to, pops from or reverses a returned array changes neither the
\* queue, nor the completed list, nor the pool, so later operations see them
\* as they were.
C21_GettersReturnCopies ==
  [][lastOp'.kind = "getters" =>
       /\ UNCHANGED program
       /\ getPendingOrders' = getPendingOrders
       /\ getCompletedOrders' = getCompletedOrders
       /\ getBots' = getBots
       /\ getStatus' = getStatus
       /\ thrown' = NoError
       /\ lastOp'.mid = getPendingOrders]_vars

\* a caller has changed the arrays it was given for two pending orders, a
\* completed order and the pool
C21_Witness ==
  /\ lastOp.kind = "getters"
  /\ Len(lastOp.mid) >= 2
  /\ lastOp.mid[1] > lastOp.mid[2]
  /\ getPendingOrders = lastOp.mid
  /\ getCompletedOrders # <<>>
  /\ RemovedBots # {}


\* every order is COMPLETE, the queue is empty and every bot of the pool is IDLE
AllDone ==
  /\ \A n \in DOMAIN order : order[n].status = ORDER_STATUS.COMPLETE
  /\ isEmpty(orderQueue)
  /\ \A i \in 1..Len(bots) : isIdle(bot[bots[i]])
  /\ timers = <<>>
\* This step creates no order and removes no bot.
Quiet == lastOp'.kind # "createOrder" /\ ~RemoveStep

\* C30: if from some point on no order is created, no bot is removed and
\* the pool holds a bot, then (every pending timer firing in the end) every
\* order ever created becomes COMPLETE, the queue becomes empty and all bots
\* end IDLE, and it stays so; while the pool is empty, the pending orders
\* stay PENDING in the queue until a bot is added.
C30_AllOrdersComplete ==
  /\ (<>[][Quiet]_vars /\ <>[](bots # <<>>)) => <>[]AllDone
  /\ [][(bots = <<>> /\ lastOp'.kind # "addBot") =>
          /\ getPendingOrders' = getPendingOrders \/ lastOp'.kind = "createOrder"
          /\ \A n \in PendingSet :
               /\ order'[n].status = ORDER_STATUS.PENDING
               /\ n \in Range(getPendingOrders')]_vars

\* all orders are complete and the bots idle, after one of the orders had
\* lost its bot and waited in the queue
C30_Witness ==
  /\ AllDone
  /\ bots # <<>>
  /\ Len(completedOrders) >= 2
  /\ \E n \in DOMAIN order : Preempted(n)
  /\ lastOp.kind = "timer"


\* C31: when removeBot removes a PROCESSING bot while a bot that stays in
\* the pool is IDLE, the queue is empty before the call, and when removeBot
\* returns the order taken from the removed bot is PROCESSING again, on the
\* earliest-added idle bot that stays; the pending count is as before the
\* call and no other bot has changed.
C31_PreemptedOrderReboundToFirstIdle ==
  [][(RemovesProcessingBot /\ IdleBotRemains) =>
       LET t == PreemptedOrder
           removed == bots[Len(bots)]
           idle == SelectSeq(SubSeq(bots, 1, Len(bots) - 1), LAMBDA b : isIdle(bot[b]))
           w == idle[1]
       IN /\ isEmpty(orderQueue)
          /\ lastOp'.ret = removed
          /\ order'[t].status = ORDER_STATUS.PROCESSING
          /\ bot'[w].status = BOT_STATUS.PROCESSING
          /\ bot'[w].currentOrder = t
          /\ \A b \in Range(bots') \ {w} : bot'[b] = bot[b]
          /\ \A i \in 1..Len(bots') : bots'[i] = w => \A j \in 1..(i - 1) : ~isIdle(bot[bots'[j]])
          /\ binds' = <<[bot |-> w, order |-> t, left |-> <<>>]>>
          /\ size(orderQueue') = size(orderQueue)
          /\ getStatus'.pendingOrders = getStatus.pendingOrders
          /\ getPendingOrders' = <<>>]_vars

\* the last of three bots was removed while processing and the first of the
\* two idle bots that stay has taken its order; the second is still idle
C31_Witness ==
  /\ lastOp.kind = "removeBot"
  /\ lastOp.order # Null
  /\ Len(bots) = 2
  /\ bot[bots[1]].currentOrder = lastOp.order
  /\ isIdle(bot[bots[2]])
  /\ binds = <<[bot |-> bots[1], order |-> lastOp.order, left |-> <<>>]>>


\* C32: every handler (createOrder, addBot, removeBot, timer callback)
\* binds at most one order to at most one bot and logs at most one pick-up,
\* because when it starts either no bot of the pool is idle or the queue is
\* empty.
C32_AtMostOneBindingPerHandler ==
  [][/\ IdleBots = <<>> \/ isEmpty(orderQueue)
     /\ Len(binds') <= 1
     /\ Len(SelectSeq(log', LAMBDA e : e.kind = "pickedUp")) <= 1
     /\ Cardinality({b \in DOMAIN bot : bot'[b].currentOrder # bot[b].currentOrder
                                         /\ bot'[b].currentOrder # Null})
          + Cardinality({b \in DOMAIN bot' \ DOMAIN bot : bot'[b].currentOrder # Null}) <= 1
     /\ Len(timers') <= Len(timers) + 1]_vars

\* an order was created while two bots were idle: the first took it and the
\* second is still idle
C32_Witness ==
  /\ lastOp.kind = "createOrder"
  /\ Len(binds) = 1
  /\ binds[1].order = lastOp.ret
  /\ Len(IdleBots) >= 1
  /\ \E i, j \in 1..Len(bots) : i < j /\ bots[i] = binds[1].bot /\ isIdle(bot[bots[j]])
  /\ completedOrders # <<>>


\* order n, bound by the handler that has just run, was bound there for the
\* first time: it had been enqueued once only, at its creation (every later
\* binding of an order follows its re-enqueue by removeBot)
FirstBinding(n) == Count(enqLog, n) = 1 /\ \E i \in 1..Len(binds) : binds[i].order = n
\* order m has never been bound: it waits in the queue since its creation
NeverBound(m) == Count(enqLog, m) = 1 /\ order[m].status = ORDER_STATUS.PENDING

\* C33: of two orders of the same type, the one created earlier is bound to
\* a bot for the first time no later than the other: when an order is bound
\* for the first time, no order of its type created before it is still
\* waiting for its first binding, and none gets it later in the same pass.
C33_FirstPickUpFifoWithinType ==
  \A i \in 1..Len(binds) :
    LET n == binds[i].order
    IN FirstBinding(n) =>
         \A m \in DOMAIN order :
           (m < n /\ order[m].type = order[n].type) =>
             /\ ~NeverBound(m)
             /\ \A j \in 1..Len(binds) : (binds[j].order = m /\ FirstBinding(m)) => j < i

\* an order is bound for the first time while an order of its type created
\* before it waits in the queue, back there after its bot was removed
C33_Witness ==
  /\ Len(binds) = 1
  /\ FirstBinding(binds[1].order)
  /\ \E m \in PendingSet :
       /\ m < binds[1].order
       /\ order[m].type = order[binds[1].order].type
       /\ Preempted(m)


\* the position in bindLog of the last binding of order n (0 if never bound)
LastBound(n) ==
  IF n \in Range(bindLog)
  THEN CHOOSE i \in 1..Len(bindLog) : bindLog[i] = n /\ \A j \in (i + 1)..Len(bindLog) : bindLog[j] # n
  ELSE 0
\* the orders that bots of the pool are processing
ProcessingSet == {bot[bots[i]].currentOrder : i \in 1..Len(bots)} \ {Null}

\* C34: every binding starts a timer of the same duration, so the bindings
\* that are not cancelled complete in the order they were made: the
\* completed list is ordered by the last binding of each order, an order
\* still being processed was bound after every completed order, and the
\* next timer to fire is that of the oldest binding still running.
C34_CompletionsInBindingOrder ==
  LET lb == [n \in DOMAIN order |-> LastBound(n)]
      done == [i \in 1..Len(completedOrders) |-> lb[completedOrders[i]]]
      running == [i \in 1..Len(timers) |-> lb[bot[timers[i]].currentOrder]]
  IN /\ \A n \in Range(completedOrders) \cup ProcessingSet : lb[n] > 0
     /\ \A i, j \in 1..Len(done) : i < j => done[i] < done[j]
     /\ \A c \in Range(completedOrders), p \in ProcessingSet : lb[c] < lb[p]
     /\ \A i, j \in 1..Len(running) : i < j => running[i] < running[j]

\* an order that lost its bot and was bound again has completed after an
\* order created later, while a bot is still processing
C34_Witness ==
  /\ lastOp.kind = "timer"
  /\ Len(completedOrders) >= 2
  /\ \E i, j \in 1..Len(completedOrders) :
       /\ i < j
       /\ completedOrders[i] > completedOrders[j]
       /\ Preempted(completedOrders[j])
  /\ ProcessingSet # {}
  /\ Len(bindLog) >= 4


\* C35: the queue's cached VIP count is the number of VIP orders in the queue,
\* and the VIP orders are exactly the orders at the first that-many positions;
\* this holds in every state, after enqueue, dequeue, the re-enqueue of a
\* preempted order, and clear.
C35_VipCountMatchesQueue ==
  LET q == orderQueue.orders
      vips == {i \in 1..Len(q) : isVIP(order[q[i]])}
  IN /\ orderQueue.vipOrderCount = Cardinality(vips)
     /\ vips = 1..orderQueue.vipOrderCount

\* a VIP order was dropped by clear; afterwards a preempted VIP order was put
\* back ahead of a waiting NORMAL order
C35_Witness ==
  LET q == orderQueue.orders
  IN /\ \E n \in DOMAIN order :
          /\ isVIP(order[n])
          /\ order[n].status = ORDER_STATUS.PENDING
          /\ n \notin Range(q)
     /\ Len(q) = 2
     /\ isVIP(order[q[1]]) /\ Preempted(q[1])
     /\ ~isVIP(order[q[2]])
     /\ orderQueue.vipOrderCount = 1

====
